---- MODULE Spec2Model ----
(***************************************************************************)
(* Snapshot engine of bookmarked-customer-data-tools: one snapshot key     *)
(* (district, today, 'classlink') on disk, the refresh_snapshot route, the  *)
(* background create_snapshot threads it starts, and the SnapshotManager    *)
(* operations they call.  A step is one filesystem call of the source, so   *)
(* the interleavings of the threads are those of the program.               *)
(*                                                                         *)
(* Time is counted in minutes.  A file pair X.csv / X.jsonl is one          *)
(* directory entry X.  status.json is written in one step; the .lock file   *)
(* is created empty and filled in a second step, as open(path, 'x')         *)
(* followed by json.dump does.  An OSError may be raised by a writer call   *)
(* and by the status write of complete_snapshot; the other file operations  *)
(* fail only for the reason the step names.  cleanup_old_snapshots has no   *)
(* caller in the repository and is not part of the behaviours.              *)
(***************************************************************************)
EXTENDS Integers, Sequences, FiniteSets, TLC

\* ---- bounds ----
\* page size of the pagination loops (the limit argument) and the number of
\* full pages the upstream serves for one entity type
Limit == 2
MaxPages == 3
NumSessions == 2
MaxClock == 31
PriorAge == 31
MaxRecords == 3
MaxRows == 3
MaxLimit == 2
MaxCalls == 4
MaxValueLen == 2

\* ---- program constants ----
StaleMinutes == 30

Sessions == 1..NumSessions
TickSteps == {30, 31}
Entities == <<"students", "parents", "classes", "schools">>
EntitySet == {Entities[i] : i \in 1..Len(Entities)}

VARIABLES
  now,     \* datetime.now(), minutes
  lock,    \* the .lock file
  status,  \* the status.json file
  files,   \* the entity files present in the directory
  pc,      \* position of each session: the route request, then its background thread
  loc,     \* local variables of each session
  his,     \* what each session has returned and called so far
  latest,  \* a get_latest_snapshot call and the date directories it scans
  writer,  \* a SnapshotWriter.write_entity_data call and the file pair it writes
  reader,  \* a SnapshotWriter search or lookup call and the file pair it reads
  connector, \* a ClassLinkConnector: its credentials cache and the calls on it
  signer   \* OneRosterClient._generate_oauth_signature calls and their results

vars == <<now, lock, status, files, pc, loc, his, latest, writer, reader, connector, signer>>

\* names of date directories under the district directory, as digit strings
\* of strftime's fixed width: "09", "10", "11"
Days == {<<0, 9>>, <<1, 0>>, <<1, 1>>}

\* the return value None of get_latest_snapshot, and no return value yet
None == [date |-> <<>>, status |-> "None"]
Pending == [date |-> <<>>, status |-> "pending"]

\* no get_latest_snapshot call under way and no date directory
NoLatest == [at |-> "idle", dirs |-> [d \in Days |-> "absent"], date_dirs |-> <<>>,
             result |-> Pending]

\* no write_entity_data call under way and no file pair
NoWriter == [at |-> "idle", data |-> <<>>, idx |-> 0, rows_written |-> 0,
             csv |-> <<>>, jsonl |-> <<>>, metadata |-> [rows |-> 0]]

\* no search or lookup call under way and no file pair.  record and payload:
\* what get_record_by_sourced_id and get_full_payload returned, <<>> for None
NoReader == [at |-> "idle", entity_type |-> "students", csv |-> <<>>, jsonl |-> <<>>,
             exists |-> FALSE, op |-> "none", search_query |-> <<>>,
             search_columns |-> {}, limit |-> 0, pos |-> 0, results |-> <<>>,
             scanned |-> 0, sourced_id |-> <<>>, record |-> <<>>, payload |-> <<>>]

\* the app ids asked for, and the credentials the management API serves
AppIds == {"x", "y"}
Credentials == {"c1", "c2"}

\* a connector just constructed: the cache of line 145 is empty, no call yet.
\* log: per call the app id, whether a request was issued, and the result
NoConnector == [at |-> "idle", app |-> "x", cache |-> [a \in AppIds |-> "absent"],
                log |-> <<>>]

\* no signature computed: the arguments of two calls on one client, and
\* what each returned
NoCall == [method |-> "GET", url |-> [base |-> "u", query |-> ""], params |-> <<>>,
           signature_base |-> <<>>, signature |-> <<>>]
NoSigner == [at |-> "idle", client_secret |-> <<>>, calls |-> <<NoCall, NoCall>>]

NoLock == [exists |-> FALSE, written |-> FALSE, session_id |-> 0, started_at |-> 0]
NoStatus == [exists |-> FALSE, status |-> "none", started_at |-> 0,
             fetched_by_session |-> 0, files |-> {}, total_api_calls |-> 0,
             total_records |-> 0,
             errors |-> <<>>]

\* force: the request's flag; caller: who called is_snapshot_in_progress;
\* lock_data: started_at read from the lock; st: the status document read by
\* complete_snapshot / fail_snapshot; groups: the non-empty entity groups
\* fetched; files_metadata: the entities written; exc: the message of the
\* exception being handled; todo: entries cleanup_partial_snapshot listed;
\* entity, offset, all_records: the pagination loop under way; all_users,
\* classes, schools: what the fetch functions returned; fetch_stats: the
\* dict of classlink_fetcher.py:220-225
NoLocals == [force |-> FALSE, caller |-> "none", lock_data |-> 0, st |-> NoStatus,
             groups |-> {}, files_metadata |-> {}, exc |-> "", todo |-> {},
             entity |-> "users", offset |-> 0, all_records |-> <<>>,
             all_users |-> <<>>, classes |-> <<>>, schools |-> <<>>,
             fetch_stats |-> [total_api_calls |-> 0, total_records |-> 0, errors |-> <<>>]]

\* route_result: answer of refresh_snapshot; init_result: return value of
\* initialize_snapshot; result: how create_snapshot ended; called: which of
\* complete_snapshot / fail_snapshot were called; raised: the exception the
\* handler of create_snapshot caught; lost: a concurrent initialize_snapshot
\* call returned True during this session's call; calls: the page requests
\* issued to the upstream, with what came back; unlinked: the entries
\* cleanup_partial_snapshot removed
NoHistory == [route_result |-> "none", init_result |-> "none", result |-> "none",
              called |-> {}, raised |-> "", lost |-> FALSE, calls |-> <<>>,
              unlinked |-> {}]

\* The snapshot directory outlives the process (SnapshotManager.__init__ keeps
\* what is on disk): it starts empty, or holds the lock and 'fetching' status
\* of a fetch of an earlier process that stopped PriorAge minutes ago.
PriorSession == 0
PriorLock == [exists |-> TRUE, written |-> TRUE, session_id |-> PriorSession,
              started_at |-> 0 - PriorAge]
PriorStatus == [exists |-> TRUE, status |-> "fetching", started_at |-> 0 - PriorAge,
                fetched_by_session |-> PriorSession, files |-> {},
                total_api_calls |-> 0, total_records |-> 0, errors |-> <<>>]

Init ==
  /\ now = 0
  /\ \/ lock = NoLock /\ status = NoStatus
     \/ lock = PriorLock /\ status = PriorStatus
  /\ files = {}
  /\ pc = [s \in Sessions |-> "idle"]
  /\ loc = [s \in Sessions |-> NoLocals]
  /\ his = [s \in Sessions |-> NoHistory]
  /\ latest = NoLatest
  /\ writer = NoWriter
  /\ reader = NoReader
  /\ connector = NoConnector
  /\ signer = NoSigner

\* ---- helpers ----

\* age_minutes > 30 of snapshot_manager.py:149-151 and 177-179
IsStale(started_at, t) == t - started_at > StaleMinutes

\* SnapshotManager.get_snapshot: the status document, None when there is no file
get_snapshot == status

\* a session moves to position p with locals l and history h; the locals of a
\* finished call are gone
Go(s, p, l, h) ==
  /\ pc' = [pc EXCEPT ![s] = p]
  /\ loc' = [loc EXCEPT ![s] = IF p = "end" THEN NoLocals ELSE l]
  /\ his' = [his EXCEPT ![s] = h]

InInitialize(s) ==
  \/ pc[s] \in {"cl_open", "cl_dump", "init_status"}
  \/ pc[s] \in {"ip_exists", "ip_read", "ip_age", "ip_status"} /\ loc[s].caller = "init"

\* ---- time ----
Tick(d) ==
  /\ now + d <= MaxClock
  /\ now' = now + d
  /\ UNCHANGED <<lock, status, files, pc, loc, his, latest, writer, reader, connector, signer>>

\* ---- refresh_snapshot (routes/tools.py) ----

\* refresh_snapshot without the existence check: the variant the rejection of
\* C10 is tested against
refresh_snapshot_unchecked(s, f) ==
  /\ pc[s] = "idle"
  /\ Go(s, "ip_exists", [loc[s] EXCEPT !.force = f, !.caller = "route"], his[s])
  /\ UNCHANGED <<now, lock, status, files, latest, writer, reader, connector, signer>>

\* entry of the route and the existence check of lines 1663-1675
refresh_snapshot(s, f) ==
  /\ pc[s] = "idle"
  /\ IF ~f /\ get_snapshot.exists /\ get_snapshot.status = "complete"
       THEN Go(s, "end", NoLocals, [his[s] EXCEPT !.route_result = "exists400"])
       ELSE Go(s, "ip_exists", [loc[s] EXCEPT !.force = f, !.caller = "route"], his[s])
  /\ UNCHANGED <<now, lock, status, files, latest, writer, reader, connector, signer>>

\* a route that starts the background fetch whatever the configuration lookups
\* found: the variant the fail-fast rule of C13 is tested against
create_snapshot_async_always(s, config_ok) ==
  /\ pc[s] = "r_config"
  /\ Go(s, "t_start", NoLocals,
        [his[s] EXCEPT !.route_result = IF config_ok THEN "accepted" ELSE "config400"])
  /\ UNCHANGED <<now, lock, status, files, latest, writer, reader, connector, signer>>

\* the configuration lookups of lines 1688-1756, then lines 1758-1781:
\* create_snapshot_async (classlink_fetcher.py:318-342) starts the thread and
\* the session id is returned
create_snapshot_async(s, config_ok) ==
  /\ pc[s] = "r_config"
  /\ IF config_ok
       THEN Go(s, "t_start", NoLocals, [his[s] EXCEPT !.route_result = "accepted"])
       ELSE Go(s, "end", NoLocals, [his[s] EXCEPT !.route_result = "config400"])
  /\ UNCHANGED <<now, lock, status, files, latest, writer, reader, connector, signer>>

\* ---- create_snapshot: the thread enters initialize_snapshot, lines 205-214 ----
create_snapshot(s) ==
  /\ pc[s] = "t_start"
  /\ Go(s, "ip_exists", [loc[s] EXCEPT !.caller = "init"], his[s])
  /\ UNCHANGED <<now, lock, status, files, latest, writer, reader, connector, signer>>

\* ---- SnapshotManager.is_snapshot_in_progress ----

\* the return of is_snapshot_in_progress to its caller: the route answers 409
\* on True (tools.py:1678-1686); initialize_snapshot returns False on True
\* (snapshot_manager.py:271-276) and create_snapshot with it
\* (classlink_fetcher.py:214-216)
in_progress_return(s, b) ==
  IF loc[s].caller = "route"
    THEN IF b THEN Go(s, "end", NoLocals, [his[s] EXCEPT !.route_result = "conflict409"])
              ELSE Go(s, "r_config", [loc[s] EXCEPT !.lock_data = 0], his[s])
    ELSE IF b THEN Go(s, "end", NoLocals,
                      [his[s] EXCEPT !.init_result = "false", !.result = "false"])
              ELSE Go(s, "cl_open", [loc[s] EXCEPT !.lock_data = 0], his[s])

\* lock_path.exists(), line 142
in_progress_exists(s) ==
  /\ pc[s] = "ip_exists"
  /\ Go(s, IF lock.exists THEN "ip_read" ELSE "ip_status", loc[s], his[s])
  /\ UNCHANGED <<now, lock, status, files, latest, writer, reader, connector, signer>>

\* open + json.load, lines 143-148; a missing or empty file raises and the
\* handler of lines 168-170 returns False
in_progress_read(s) ==
  /\ pc[s] = "ip_read"
  /\ IF lock.exists /\ lock.written
       THEN Go(s, "ip_age", [loc[s] EXCEPT !.lock_data = lock.started_at], his[s])
       ELSE in_progress_return(s, FALSE)
  /\ UNCHANGED <<now, lock, status, files, latest, writer, reader, connector, signer>>

\* the staleness test and the unlink of lines 149-167; the unlink removes
\* whatever file is at the path, and when none is there it raises and the
\* handler returns False
in_progress_age(s) ==
  /\ pc[s] = "ip_age"
  /\ IF IsStale(loc[s].lock_data, now)
       THEN /\ lock' = NoLock
            /\ in_progress_return(s, FALSE)
       ELSE /\ in_progress_return(s, TRUE)
            /\ UNCHANGED lock
  /\ UNCHANGED <<now, status, files, latest, writer, reader, connector, signer>>

\* the status.json fallback of lines 172-189
in_progress_status(s) ==
  /\ pc[s] = "ip_status"
  /\ in_progress_return(s, /\ get_snapshot.exists
                           /\ get_snapshot.status = "fetching"
                           /\ ~IsStale(get_snapshot.started_at, now))
  /\ UNCHANGED <<now, lock, status, files, latest, writer, reader, connector, signer>>

\* ---- SnapshotManager.create_lock ----

\* lines 204-219: lock_path.exists() and open(lock_path, 'x'), which creates
\* the empty file or raises FileExistsError; either way an existing lock makes
\* create_lock, initialize_snapshot and create_snapshot return False
create_lock_open(s) ==
  /\ pc[s] = "cl_open"
  /\ IF lock.exists
       THEN /\ Go(s, "end", NoLocals,
                  [his[s] EXCEPT !.init_result = "false", !.result = "false"])
            /\ UNCHANGED lock
       ELSE /\ lock' = [exists |-> TRUE, written |-> FALSE, session_id |-> s,
                       started_at |-> 0]
            /\ Go(s, "cl_dump", loc[s], his[s])
  /\ UNCHANGED <<now, status, files, latest, writer, reader, connector, signer>>

\* json.dump and close, lines 220-231; the data reaches the file this session
\* opened, which is the directory's .lock only if nobody unlinked it since
create_lock(s) ==
  /\ pc[s] = "cl_dump"
  /\ lock' = IF lock.exists /\ lock.session_id = s /\ ~lock.written
               THEN [lock EXCEPT !.written = TRUE, !.started_at = now]
               ELSE lock
  /\ Go(s, "init_status", loc[s], his[s])
  /\ UNCHANGED <<now, status, files, latest, writer, reader, connector, signer>>

\* ---- initialize_snapshot: the initial status document, lines 282-310 ----
initialize_snapshot(s) ==
  /\ pc[s] = "init_status"
  /\ status' = [exists |-> TRUE, status |-> "fetching", started_at |-> now,
                fetched_by_session |-> s, files |-> {}, total_api_calls |-> 0,
                total_records |-> 0,
                errors |-> <<>>]
  /\ pc' = [pc EXCEPT ![s] = "fetch"]
  /\ his' = [t \in Sessions |->
               IF t = s THEN [his[s] EXCEPT !.init_result = "true"]
               ELSE IF InInitialize(t) THEN [his[t] EXCEPT !.lost = TRUE]
               ELSE his[t]]
  /\ UNCHANGED <<now, lock, files, loc, latest, writer, reader, connector, signer>>


\* ---- create_snapshot: fetching, lines 218-251 ----

\* the entity groups the upstream returned records for
FetchOutcomes == {{}, {"students", "classes"}, EntitySet}

\* the three fetch calls taken as one step with their outcome g; each call
\* adds 1 to fetch_stats['total_api_calls'] (lines 230, 244, 249)
fetch(s, g) ==
  /\ pc[s] = "fetch"
  /\ Go(s, IF g = {} THEN "comp_read" ELSE "write",
        [loc[s] EXCEPT !.groups = g, !.fetch_stats.total_api_calls = 3], his[s])
  /\ UNCHANGED <<now, lock, status, files, latest, writer, reader, connector, signer>>

\* ---- fetch_all_users and fetch_entity_paginated, page by page ----

\* what one page request can come back with: a page of n records, [] from the
\* connector after a non-200 answer or a timeout (classlink.py:117-131 returns
\* None, get_users returns []), or an exception out of the connector call
Responses ==
  {[kind |-> "raise", n |-> 0], [kind |-> "none", n |-> 0]}
    \cup {[kind |-> "page", n |-> k] : k \in 0..Limit}

\* the upstream numbers its records: the page at an offset holds the records
\* offset+1 .. offset+n
PageRecords(offset, n) == [i \in 1..n |-> offset + i]

\* the role of user number id in the upstream's data
Role(id) == IF id % 3 = 1 THEN "student" ELSE IF id % 3 = 2 THEN "parent" ELSE "teacher"

WithRole(users, roles) == SelectSeq(users, LAMBDA u : Role(u) \in roles)

\* lines 232-234 and the tests of lines 260-277: the groups with records
Groups(all_users, classes, schools) ==
  {e \in EntitySet :
     \/ e = "students" /\ WithRole(all_users, {"student"}) # <<>>
     \/ e = "parents" /\ WithRole(all_users, {"parent"}) # <<>>
     \/ e = "classes" /\ classes # <<>>
     \/ e = "schools" /\ schools # <<>>}

\* a loop that goes on to the next offset after a short page: the variant the
\* stopping rule of C14 is tested against
Paginate_past_short(s, r) ==
  LET l == loc[s]
      page == IF r.kind = "page" THEN PageRecords(l.offset, r.n) ELSE <<>>
      call == [entity |-> l.entity, offset |-> l.offset, kind |-> r.kind, page |-> page]
  IN
  /\ pc[s] = "fetch"
  /\ l.offset < MaxPages * Limit
  /\ Go(s, "fetch", [l EXCEPT !.offset = @ + Limit, !.all_records = @ \o page],
        [his[s] EXCEPT !.calls = Append(@, call)])
  /\ UNCHANGED <<now, lock, status, files, latest, writer, reader, connector, signer>>

\* a loop without the `except` of lines 100-105 and 179-182, so that a page
\* failure reaches the handler of create_snapshot: the variant the absorption
\* of C15 is tested against
Paginate_unguarded(s, r) ==
  LET l == loc[s]
      call == [entity |-> l.entity, offset |-> l.offset, kind |-> r.kind, page |-> <<>>]
  IN
  /\ pc[s] = "fetch"
  /\ Go(s, "fail_read", [l EXCEPT !.exc = "PageError"],
        [his[s] EXCEPT !.calls = Append(@, call), !.raised = "PageError"])
  /\ UNCHANGED <<now, lock, status, files, latest, writer, reader, connector, signer>>

\* one iteration of the loop `while True` for the entity type under way
\* (lines 57-105 and 135-182): the request at the current offset, the break on
\* an empty page, a short page or an exception, and otherwise offset += limit.
\* On the break the function returns all_records and create_snapshot adds 1
\* to total_api_calls; after schools create_snapshot sets total_records (line
\* 251) and goes on to the writes.
Paginate(s, r) ==
  LET l == loc[s]
      page == IF r.kind = "page" THEN PageRecords(l.offset, r.n) ELSE <<>>
      all == l.all_records \o page
      call == [entity |-> l.entity, offset |-> l.offset, kind |-> r.kind, page |-> page]
      h == [his[s] EXCEPT !.calls = Append(@, call)]
      ret == [l EXCEPT !.offset = 0, !.all_records = <<>>,
                       !.fetch_stats.total_api_calls = @ + 1]
      g == Groups(l.all_users, l.classes, all)
  IN
  /\ pc[s] = "fetch"
  /\ r.kind = "page" /\ r.n = Limit => l.offset < MaxPages * Limit
  /\ IF r.kind = "page" /\ r.n = Limit
       THEN Go(s, "fetch", [l EXCEPT !.offset = @ + Limit, !.all_records = all], h)
     ELSE IF l.entity = "users"
       THEN Go(s, "fetch", [ret EXCEPT !.entity = "classes", !.all_users = all], h)
     ELSE IF l.entity = "classes"
       THEN Go(s, "fetch", [ret EXCEPT !.entity = "schools", !.classes = all], h)
     ELSE Go(s, IF g = {} THEN "comp_read" ELSE "write",
             [ret EXCEPT !.entity = "done", !.schools = all, !.groups = g,
                         !.fetch_stats.total_records =
                            Len(l.all_users) + Len(l.classes) + Len(all)], h)
  /\ UNCHANGED <<now, lock, status, files, latest, writer, reader, connector, signer>>

\* ClassLinkSnapshotFetcher.fetch_all_users, lines 34-112
fetch_all_users(s, r) == loc[s].entity = "users" /\ Paginate(s, r)

\* ClassLinkSnapshotFetcher.fetch_entity_paginated, lines 114-188
fetch_entity_paginated(s, r) == loc[s].entity \in {"classes", "schools"} /\ Paginate(s, r)

\* ---- create_snapshot: the writes of lines 253-277, in the order of the source ----

Remaining(s) == {i \in 1..Len(Entities) :
                   Entities[i] \in loc[s].groups \ loc[s].files_metadata}

\* the writes taken from the last group to the first
NextEntity_reversed(s) == Entities[CHOOSE i \in Remaining(s) : \A j \in Remaining(s) : i >= j]

NextEntity(s) == Entities[CHOOSE i \in Remaining(s) : \A j \in Remaining(s) : i <= j]

\* the handler of classlink_fetcher.py:299 catches the exception
Caught(s, msg) ==
  Go(s, "fail_read", [loc[s] EXCEPT !.exc = msg], [his[s] EXCEPT !.raised = msg])

\* SnapshotWriter.write_entity_data (csv_writer.py:52-102) for the next group:
\* the files are opened (created or truncated) and written; an OSError while
\* they are written leaves them behind
write_entity_data(s, fault) ==
  /\ pc[s] = "write"
  /\ LET e == NextEntity(s)
         done == loc[s].files_metadata \cup {e} IN
       /\ files' = files \cup {e}
       /\ IF fault
            THEN Caught(s, "OSError")
            ELSE Go(s, IF loc[s].groups \ done = {} THEN "comp_read" ELSE "write",
                    [loc[s] EXCEPT !.files_metadata = done], his[s])
  /\ UNCHANGED <<now, lock, status, latest, writer, reader, connector, signer>>

\* ---- SnapshotManager.complete_snapshot ----

\* get_snapshot of lines 346-349; without a status document the call returns
\* at once and create_snapshot returns True
complete_snapshot_read(s) ==
  /\ pc[s] = "comp_read"
  /\ LET h == [his[s] EXCEPT !.called = @ \cup {"complete"}] IN
       IF get_snapshot.exists
         THEN Go(s, "comp_write", [loc[s] EXCEPT !.st = get_snapshot], h)
         ELSE Go(s, "end", NoLocals, [h EXCEPT !.result = "true"])
  /\ UNCHANGED <<now, lock, status, files, latest, writer, reader, connector, signer>>

\* lines 351-361: the document read, marked complete, is written back with
\* the files written and the fetcher's fetch_stats (errors: [])
complete_snapshot(s, fault) ==
  /\ pc[s] = "comp_write"
  /\ IF fault
       THEN /\ Caught(s, "OSError")
            /\ UNCHANGED status
       ELSE /\ status' = [loc[s].st EXCEPT
                           !.status = "complete",
                           !.files = loc[s].files_metadata,
                           !.total_api_calls = loc[s].fetch_stats.total_api_calls,
                           !.total_records = loc[s].fetch_stats.total_records,
                           !.errors = loc[s].fetch_stats.errors]
            /\ Go(s, "rel_exists", [loc[s] EXCEPT !.st = NoStatus], his[s])
  /\ UNCHANGED <<now, lock, files, latest, writer, reader, connector, signer>>

\* ---- SnapshotManager.fail_snapshot ----

\* get_snapshot of lines 380-383
fail_snapshot_read(s) ==
  /\ pc[s] = "fail_read"
  /\ LET h == [his[s] EXCEPT !.called = @ \cup {"fail"}] IN
       IF get_snapshot.exists
         THEN Go(s, "fail_write", [loc[s] EXCEPT !.st = get_snapshot], h)
         ELSE Go(s, "cleanup_list", loc[s], h)
  /\ UNCHANGED <<now, lock, status, files, latest, writer, reader, connector, signer>>

\* lines 385-392
fail_snapshot(s) ==
  /\ pc[s] = "fail_write"
  /\ status' = [loc[s].st EXCEPT !.status = "failed", !.errors = Append(@, loc[s].exc)]
  /\ Go(s, "rel_exists", [loc[s] EXCEPT !.st = NoStatus], his[s])
  /\ UNCHANGED <<now, lock, files, latest, writer, reader, connector, signer>>

\* ---- SnapshotManager.release_lock, the last call of both ----

\* the session is in fail_snapshot iff an exception is being handled
InFail(s) == loc[s].exc # ""

\* lock_path.exists(), line 250
release_lock_exists(s) ==
  /\ pc[s] = "rel_exists"
  /\ IF lock.exists THEN Go(s, "rel_unlink", loc[s], his[s])
     ELSE IF InFail(s) THEN Go(s, "cleanup_list", loc[s], his[s])
     ELSE Go(s, "end", NoLocals, [his[s] EXCEPT !.result = "true"])
  /\ UNCHANGED <<now, lock, status, files, latest, writer, reader, connector, signer>>

\* release_lock without the unlink: the variant the lock discipline of C9 is
\* tested against
release_lock_kept(s) ==
  /\ pc[s] = "rel_unlink"
  /\ lock' = lock
  /\ IF InFail(s) THEN Go(s, "cleanup_list", loc[s], his[s])
     ELSE Go(s, "end", NoLocals, [his[s] EXCEPT !.result = "true"])
  /\ UNCHANGED <<now, status, files, latest, writer, reader, connector, signer>>

\* lock_path.unlink(), line 251.  A lock that is gone raises FileNotFoundError:
\* out of complete_snapshot into the handler of classlink_fetcher.py:299, out
\* of fail_snapshot out of create_snapshot
release_lock(s) ==
  /\ pc[s] = "rel_unlink"
  /\ lock' = NoLock
  /\ IF lock.exists
       THEN IF InFail(s) THEN Go(s, "cleanup_list", loc[s], his[s])
            ELSE Go(s, "end", NoLocals, [his[s] EXCEPT !.result = "true"])
       ELSE IF InFail(s) THEN Go(s, "end", NoLocals, [his[s] EXCEPT !.result = "raised"])
            ELSE Caught(s, "FileNotFoundError")
  /\ UNCHANGED <<now, status, files, latest, writer, reader, connector, signer>>

\* ---- SnapshotManager.cleanup_partial_snapshot ----

\* iterdir of line 414 lists the directory; after the cleanup create_snapshot
\* returns False (classlink_fetcher.py:314-316)
cleanup_partial_list(s) ==
  /\ pc[s] = "cleanup_list"
  /\ IF files = {}
       THEN Go(s, "end", NoLocals, [his[s] EXCEPT !.result = "false"])
       ELSE Go(s, "cleanup_unlink", [loc[s] EXCEPT !.todo = files], his[s])
  /\ UNCHANGED <<now, lock, status, files, latest, writer, reader, connector, signer>>

\* the loop of lines 414-416 without the test of the name at line 415:
\* status.json and .lock are unlinked with the rest
cleanup_partial_snapshot_unfiltered(s) ==
  /\ pc[s] = "cleanup_unlink"
  /\ LET e == Entities[CHOOSE i \in 1..Len(Entities) :
                 /\ Entities[i] \in loc[s].todo
                 /\ \A j \in 1..Len(Entities) : Entities[j] \in loc[s].todo => i <= j]
         h == [his[s] EXCEPT !.unlinked = @ \cup {e}]
     IN
       IF e \notin files
         THEN /\ Go(s, "end", NoLocals, [his[s] EXCEPT !.result = "raised"])
              /\ UNCHANGED <<files, lock, status>>
         ELSE /\ files' = files \ {e}
              /\ IF loc[s].todo = {e}
                   THEN /\ Go(s, "end", NoLocals, [h EXCEPT !.result = "false"])
                        /\ lock' = NoLock /\ status' = NoStatus
                   ELSE /\ Go(s, "cleanup_unlink", [loc[s] EXCEPT !.todo = @ \ {e}], h)
                        /\ UNCHANGED <<lock, status>>
  /\ UNCHANGED <<now, latest, writer, reader, connector, signer>>

\* file.unlink() of line 416 for the next listed entry that is neither
\* status.json nor .lock (line 415); an entry that is gone raises out of
\* create_snapshot
cleanup_partial_snapshot(s) ==
  /\ pc[s] = "cleanup_unlink"
  /\ LET e == Entities[CHOOSE i \in 1..Len(Entities) :
                 /\ Entities[i] \in loc[s].todo
                 /\ \A j \in 1..Len(Entities) : Entities[j] \in loc[s].todo => i <= j]
         h == [his[s] EXCEPT !.unlinked = @ \cup {e}]
     IN
       IF e \notin files
         THEN /\ Go(s, "end", NoLocals, [his[s] EXCEPT !.result = "raised"])
              /\ UNCHANGED files
         ELSE /\ files' = files \ {e}
              /\ IF loc[s].todo = {e}
                   THEN Go(s, "end", NoLocals, [h EXCEPT !.result = "false"])
                   ELSE Go(s, "cleanup_unlink", [loc[s] EXCEPT !.todo = @ \ {e}], h)
  /\ UNCHANGED <<now, lock, status, latest, writer, reader, connector, signer>>

\* ---- the program ----
Next ==
  \/ \E d \in TickSteps : Tick(d)
  \/ \E s \in Sessions, f \in BOOLEAN : refresh_snapshot(s, f)
  \/ \E s \in Sessions, ok \in BOOLEAN : create_snapshot_async(s, ok)
  \/ \E s \in Sessions : create_snapshot(s)
  \/ \E s \in Sessions : in_progress_exists(s)
  \/ \E s \in Sessions : in_progress_read(s)
  \/ \E s \in Sessions : in_progress_age(s)
  \/ \E s \in Sessions : in_progress_status(s)
  \/ \E s \in Sessions : create_lock_open(s)
  \/ \E s \in Sessions : create_lock(s)
  \/ \E s \in Sessions : initialize_snapshot(s)
  \/ \E s \in Sessions, g \in FetchOutcomes : fetch(s, g)
  \/ \E s \in Sessions, fault \in BOOLEAN : write_entity_data(s, fault)
  \/ \E s \in Sessions : complete_snapshot_read(s)
  \/ \E s \in Sessions, fault \in BOOLEAN : complete_snapshot(s, fault)
  \/ \E s \in Sessions : fail_snapshot_read(s)
  \/ \E s \in Sessions : fail_snapshot(s)
  \/ \E s \in Sessions : release_lock_exists(s)
  \/ \E s \in Sessions : release_lock(s)
  \/ \E s \in Sessions : cleanup_partial_list(s)
  \/ \E s \in Sessions : cleanup_partial_snapshot(s)

Spec == Init /\ [][Next]_vars

TypeOK ==
  /\ now \in 0..MaxClock
  /\ lock.session_id \in Sessions \cup {PriorSession}
  /\ status.status \in {"none", "fetching", "complete", "failed"}


\* ---- C1 ----
\* C1: of the initialize_snapshot calls that run concurrently on the key, one
\* returns True; a call during which another call returned True returns False
\* and neither creates the lock file nor writes the status document, so both
\* stay the winner's.  Stated for calls that all run within the same minute
\* (now = 0), whatever the directory held at the start.
C1_OneInitializeWins ==
  \A s \in Sessions :
    his[s].lost /\ now = 0 =>
      /\ his[s].init_result # "true"
      /\ ~(lock.exists /\ lock.session_id = s)
      /\ ~(status.exists /\ status.fetched_by_session = s)


\* ---- C2 ----
\* a create_snapshot between its initialize_snapshot, which returned True, and
\* its call of complete_snapshot or fail_snapshot
Fetching(s) == pc[s] \in {"fetch", "write"}

\* C2: at every moment at most one create_snapshot execution is in progress
\* for the key, so no two fetchers write to the snapshot directory at once.
C2_AtMostOneFetch == Cardinality({s \in Sessions : Fetching(s)}) <= 1


\* ---- C3 ----
\* C3: a create_snapshot whose initialize_snapshot returned True has, when it
\* ends, called exactly one of complete_snapshot and fail_snapshot, also when
\* complete_snapshot or a writer call raised.
C3_ExactlyOneOfCompleteFail ==
  \A s \in Sessions :
    pc[s] = "end" /\ his[s].init_result = "true" => Cardinality(his[s].called) = 1

\* ---- C4 ----
\* the step in which complete_snapshot returns to create_snapshot
CompleteReturns(s) ==
  /\ pc[s] \in {"comp_read", "rel_exists", "rel_unlink"}
  /\ loc[s].exc = ""
  /\ pc'[s] = "end"

\* the step in which fail_snapshot returns to create_snapshot
FailReturns(s) ==
  /\ pc[s] \in {"fail_read", "rel_exists", "rel_unlink"}
  /\ loc[s].exc # ""
  /\ pc'[s] = "cleanup_list"

\* C4: when complete_snapshot (fail_snapshot) returns, the status file says
\* 'complete' ('failed') and the key has no lock file, whatever the other
\* sessions did meanwhile.
C4_ReturnLeavesTerminalAndUnlocked ==
  [][\A s \in Sessions :
       /\ CompleteReturns(s) => status'.status = "complete" /\ ~lock'.exists
       /\ FailReturns(s) => status'.status = "failed" /\ ~lock'.exists]_vars

\* ---- C5 ----
\* sessions whose trigger was answered with a session id and whose fetch has
\* not finished
Accepted == {s \in Sessions : his[s].route_result = "accepted" /\ pc[s] # "end"}

\* C5: while the fetch of an accepted trigger has not finished, no second
\* trigger for the key is accepted: two triggers never both get a session id
\* for fetches that are under way together.
C5_SecondTriggerRejected == Cardinality(Accepted) <= 1

\* ---- C6 ----
\* the step in which create_snapshot ends after its handler caught an exception
EndsAfterException(s) == pc[s] # "end" /\ pc'[s] = "end" /\ his[s].raised # ""

InErrors(msg, errors) == \E i \in 1..Len(errors) : errors[i] = msg

\* C6: a create_snapshot that caught an exception after its initialize_snapshot
\* returned True ends with status 'failed' holding the exception message, no
\* lock file, no entity file left in the directory, and returns False.
C6_ExceptionEndsFailedAndClean ==
  [][\A s \in Sessions :
       EndsAfterException(s) =>
         /\ his'[s].result = "false"
         /\ status'.status = "failed"
         /\ InErrors(his[s].raised, status'.errors)
         /\ ~lock'.exists
         /\ files' = {}]_vars


\* ---- C7 ----
\* the step in which is_snapshot_in_progress, having read a lock file, tests
\* its age and returns
AgeStep(s) == pc[s] = "ip_age" /\ pc'[s] # "ip_age"

\* what the caller does with the value is_snapshot_in_progress returned
ReturnedTrue(s) ==
  /\ pc'[s] = "end"
  /\ \/ his'[s].route_result = "conflict409"
     \/ his'[s].init_result = "false"

ReturnedFalse(s) == pc'[s] \in {"r_config", "cl_open"}

\* C7: when is_snapshot_in_progress returns from its lock branch, a lock file
\* more than 30 minutes old has been deleted and the result is False, and a
\* lock file 30 minutes old or younger is still there and the result is True.
C7_StaleDeletedFreshKept ==
  [][\A s \in Sessions :
       AgeStep(s) /\ lock.exists /\ lock.written =>
         IF IsStale(lock.started_at, now)
           THEN ~lock'.exists /\ ReturnedFalse(s)
           ELSE lock' = lock /\ ReturnedTrue(s)]_vars

\* ---- C8 ----
\* is_snapshot_in_progress as a function of the directory: one call, made by
\* the route for CheckSession, on every combination of lock file, status file
\* and clock
CheckSession == 1
CheckTimes == {30, 31}
CheckStarts == {0, 1}
CheckLocks ==
  {NoLock, [exists |-> TRUE, written |-> FALSE, session_id |-> PriorSession, started_at |-> 0]}
    \cup {[exists |-> TRUE, written |-> TRUE, session_id |-> PriorSession, started_at |-> t] :
            t \in CheckStarts}
CheckStatuses ==
  {NoStatus}
    \cup {[exists |-> TRUE, status |-> v, started_at |-> t,
           fetched_by_session |-> PriorSession, files |-> {},
           total_api_calls |-> 0, total_records |-> 0, errors |-> <<>>] :
            v \in {"fetching", "complete", "failed"}, t \in CheckStarts}

InitInProgress ==
  /\ now \in CheckTimes
  /\ lock \in CheckLocks
  /\ status \in CheckStatuses
  /\ files = {}
  /\ pc = [s \in Sessions |-> IF s = CheckSession THEN "ip_exists" ELSE "idle"]
  /\ loc = [s \in Sessions |->
              IF s = CheckSession THEN [NoLocals EXCEPT !.caller = "route"] ELSE NoLocals]
  /\ his = [s \in Sessions |-> NoHistory]
  /\ latest = NoLatest
  /\ writer = NoWriter
  /\ reader = NoReader
  /\ connector = NoConnector
  /\ signer = NoSigner

NextInProgress ==
  \/ in_progress_exists(CheckSession)
  \/ in_progress_read(CheckSession)
  \/ in_progress_age(CheckSession)
  \/ in_progress_status(CheckSession)

SpecInProgress == InitInProgress /\ [][NextInProgress]_vars

FreshLock == lock.exists /\ lock.written /\ ~IsStale(lock.started_at, now)
FreshFetching ==
  status.exists /\ status.status = "fetching" /\ ~IsStale(status.started_at, now)

\* C8: is_snapshot_in_progress returns True exactly when there is a lock file
\* at most 30 minutes old or a status 'fetching' at most 30 minutes old; a
\* stale or unreadable lock beside a fresh 'fetching' status gives True.
C8_TrueIffFreshLockOrFreshFetching ==
  /\ his[CheckSession].route_result = "conflict409" => FreshLock \/ FreshFetching
  /\ pc[CheckSession] = "r_config" => ~(FreshLock \/ FreshFetching)


\* ---- C9 ----
\* no initialize_snapshot, complete_snapshot or fail_snapshot call is part-way
Quiescent ==
  \A s \in Sessions :
    /\ ~InInitialize(s)
    /\ pc[s] \notin {"comp_read", "comp_write", "fail_read", "fail_write",
                     "rel_exists", "rel_unlink"}

StatusFetching == status.exists /\ status.status = "fetching"

\* C9 as stated: with the files of a stopped process gone or replaced, and no
\* initialize, complete or fail call part-way, the lock file exists exactly
\* when the status is 'fetching'.
C9_LockIffFetching ==
  Quiescent /\ status # PriorStatus => (lock.exists <=> StatusFetching)

\* C9 as far as the code keeps it: when no initialize, complete or fail call is
\* part-way, a lock file that exists goes with status 'fetching'; the status
\* can stay 'fetching' with no lock file, after is_snapshot_in_progress
\* unlinked the lock.
C9_LockImpliesFetching == Quiescent /\ lock.exists => StatusFetching

\* a fetch is under way, nothing is part-way, and its lock and its 'fetching'
\* status are both in place
C9_Witness ==
  \E s \in Sessions :
    /\ Fetching(s)
    /\ Quiescent
    /\ lock.exists /\ lock.session_id = s
    /\ StatusFetching /\ status.fetched_by_session = s

\* ---- C10 ----
\* the step in which session s issues a refresh trigger without force
UnforcedTrigger(s) == pc[s] = "idle" /\ pc'[s] # "idle" /\ ~loc'[s].force

Rejected(s) ==
  /\ pc'[s] = "end"
  /\ his'[s].route_result = "exists400"
  /\ UNCHANGED <<lock, status, files>>

\* C10 as stated: once the status is 'complete' or 'failed', a trigger without
\* force is rejected and leaves the status as it was.
C10_TerminalRejectsUnforced ==
  [][\A s \in Sessions :
       UnforcedTrigger(s) /\ status.exists /\ status.status \in {"complete", "failed"}
         => Rejected(s)]_vars

\* C10 as far as the code keeps it: a trigger without force that finds the
\* status 'complete' is rejected and changes neither status, lock nor files;
\* a status 'failed' does not stop it.
C10_CompleteRejectsUnforced ==
  [][\A s \in Sessions :
       UnforcedTrigger(s) /\ status.exists /\ status.status = "complete"
         => Rejected(s)]_vars

\* a trigger was rejected because the snapshot is complete
C10_Witness ==
  \E s \in Sessions :
    /\ his[s].route_result = "exists400"
    /\ status.exists /\ status.status = "complete"


\* ---- C11 ----
\* C11: whenever the status is 'complete', the entity files in the directory
\* are exactly those listed in status.files; no entity file of an earlier
\* snapshot of the key is left over.
C11_CompleteFilesAreListed ==
  status.exists /\ status.status = "complete" => files = status.files

\* ---- C12 ----
\* C12: a trigger that was answered with a session id S gets its outcome into
\* the status document: the create_snapshot of S does not end without having
\* written status 'fetching' with fetched_by_session = S.
C12_AcceptedSessionReportsOutcome ==
  \A s \in Sessions :
    his[s].route_result = "accepted" /\ pc[s] = "end" => his[s].init_result = "true"


\* ---- C13 ----
\* session s has left no trace: no create_snapshot ran for it, and neither the
\* lock file nor the status document carries its id
NothingStarted(s) ==
  /\ his'[s].init_result = "none"
  /\ his'[s].called = {}
  /\ ~(lock'.exists /\ lock'.session_id = s)
  /\ ~(status'.exists /\ status'.fetched_by_session = s)

\* C13: a trigger that fails a configuration check is answered at once (a 400
\* from the route); the answering step leaves lock, status and files as they
\* are, the request is over, and no lock, status or background fetch of that
\* session ever exists.
C13_ConfigErrorStartsNothing ==
  [][\A s \in Sessions :
       /\ his'[s].route_result = "config400" => pc'[s] = "end" /\ NothingStarted(s)
       /\ pc[s] = "r_config" /\ his'[s].route_result = "config400"
            => UNCHANGED <<lock, status, files>>]_vars

\* a trigger was rejected for its configuration while another session's fetch
\* is under way
C13_Witness ==
  \E s, t \in Sessions :
    /\ his[s].route_result = "config400"
    /\ Fetching(t)


\* ---- one refresh trigger on its own, its fetch taken page by page ----

FetchSession == 1

\* the complete snapshot an earlier fetch of the key left in the directory
EarlierStatus ==
  [PriorStatus EXCEPT !.status = "complete", !.files = EntitySet, !.total_api_calls = 3,
                      !.total_records = Len(Entities)]

\* the directory is empty, holds what a stopped fetch left, or holds an
\* earlier complete snapshot of the key with all four entity files
InitFetch ==
  /\ now = 0
  /\ \/ lock = NoLock /\ status = NoStatus /\ files = {}
     \/ lock = PriorLock /\ status = PriorStatus /\ files = {}
     \/ lock = NoLock /\ status = EarlierStatus /\ files = EntitySet
  /\ pc = [s \in Sessions |-> "idle"]
  /\ loc = [s \in Sessions |-> NoLocals]
  /\ his = [s \in Sessions |-> NoHistory]
  /\ latest = NoLatest
  /\ writer = NoWriter
  /\ reader = NoReader
  /\ connector = NoConnector
  /\ signer = NoSigner

NextFetch ==
  \/ \E f \in BOOLEAN : refresh_snapshot(FetchSession, f)
  \/ \E ok \in BOOLEAN : create_snapshot_async(FetchSession, ok)
  \/ create_snapshot(FetchSession)
  \/ in_progress_exists(FetchSession)
  \/ in_progress_read(FetchSession)
  \/ in_progress_age(FetchSession)
  \/ in_progress_status(FetchSession)
  \/ create_lock_open(FetchSession)
  \/ create_lock(FetchSession)
  \/ initialize_snapshot(FetchSession)
  \/ \E r \in Responses : fetch_all_users(FetchSession, r)
  \/ \E r \in Responses : fetch_entity_paginated(FetchSession, r)
  \/ \E fault \in BOOLEAN : write_entity_data(FetchSession, fault)
  \/ complete_snapshot_read(FetchSession)
  \/ \E fault \in BOOLEAN : complete_snapshot(FetchSession, fault)
  \/ fail_snapshot_read(FetchSession)
  \/ fail_snapshot(FetchSession)
  \/ release_lock_exists(FetchSession)
  \/ release_lock(FetchSession)
  \/ cleanup_partial_list(FetchSession)
  \/ cleanup_partial_snapshot(FetchSession)

SpecFetch == InitFetch /\ [][NextFetch]_vars


\* ---- C14 ----
PagedEntities == <<"users", "classes", "schools", "done">>
Position(e) == CHOOSE i \in 1..Len(PagedEntities) : PagedEntities[i] = e

\* the page requests session s issued for entity type e, in order
CallsOf(s, e) == SelectSeq(his[s].calls, LAMBDA c : c.entity = e)

FullPage(c) == c.kind = "page" /\ Len(c.page) = Limit
PageFailed(c) == c.kind # "page"

RECURSIVE ConcatPages(_)
ConcatPages(cs) ==
  IF cs = <<>> THEN <<>> ELSE ConcatPages(SubSeq(cs, 1, Len(cs) - 1)) \o cs[Len(cs)].page

\* what the fetch function for e returned to create_snapshot
ReturnedFor(s, e) ==
  IF e = "users" THEN loc[s].all_users
  ELSE IF e = "classes" THEN loc[s].classes ELSE loc[s].schools

HasReturned(s, e) == Position(loc[s].entity) > Position(e)

\* C14: for each entity type the page requests go to offsets 0, limit,
\* 2*limit, ... in that order; every page before the last requested one was
\* full, so nothing is requested after an empty page, a short page or an
\* error, and the loop is over as soon as one arrives; the records
\* accumulated, and returned, are the received pages concatenated in request
\* order.
C14_PagesInOrderUntilShort ==
  \A s \in Sessions : \A e \in {"users", "classes", "schools"} :
    LET cs == CallsOf(s, e) IN
      /\ \A i \in 1..Len(cs) : cs[i].offset = (i - 1) * Limit
      /\ \A i \in 1..(Len(cs) - 1) : FullPage(cs[i])
      /\ pc[s] # "end" /\ loc[s].entity = e =>
           /\ \A i \in 1..Len(cs) : FullPage(cs[i])
           /\ loc[s].all_records = ConcatPages(cs)
           /\ loc[s].offset = Len(cs) * Limit
      /\ pc[s] # "end" /\ HasReturned(s, e) =>
           /\ cs # <<>> /\ ~FullPage(cs[Len(cs)])
           /\ ReturnedFor(s, e) = ConcatPages(cs)

\* three pages of two users and then an empty page gave the six users in order
C14_Witness ==
  \E s \in Sessions :
    LET cs == CallsOf(s, "users") IN
      /\ HasReturned(s, "users")
      /\ Len(cs) = 4
      /\ cs[4].kind = "page" /\ cs[4].page = <<>>
      /\ loc[s].all_users = <<1, 2, 3, 4, 5, 6>>

\* ---- C15 ----
SomePageFailed(s) == \E i \in 1..Len(his[s].calls) : PageFailed(his[s].calls[i])

\* the fetch phase of a create_snapshot that got past initialize_snapshot is over
FetchOver(s) == his[s].init_result = "true" /\ pc[s] # "fetch"

\* C15: when a page request failed, no further page of that entity type is
\* requested, the records of its earlier pages are what the fetch function
\* returned, the other entity types have been fetched all the same, and the
\* page failure is not what the snapshot ends with: without an exception from
\* the writes or the status update the create_snapshot ends 'complete'.
C15_PageFailureIsAbsorbed ==
  \A s \in Sessions :
    SomePageFailed(s) =>
      /\ \A e \in {"users", "classes", "schools"} :
           LET cs == CallsOf(s, e) IN
             /\ \A i \in 1..(Len(cs) - 1) : ~PageFailed(cs[i])
             /\ pc[s] # "end" /\ HasReturned(s, e) => ReturnedFor(s, e) = ConcatPages(cs)
             /\ FetchOver(s) => cs # <<>>
      /\ his[s].raised \in {"", "OSError"}
      /\ pc[s] = "end" /\ his[s].raised = "" =>
           /\ his[s].result = "true"
           /\ status.status = "complete" /\ status.fetched_by_session = s

\* a users page failed after a full page; the snapshot is complete and holds
\* the users of the first page
C15_Witness ==
  \E s \in Sessions :
    LET cs == CallsOf(s, "users") IN
      /\ Len(cs) = 2 /\ FullPage(cs[1]) /\ PageFailed(cs[2])
      /\ pc[s] = "end" /\ his[s].result = "true"
      /\ status.status = "complete" /\ status.fetched_by_session = s
      /\ {"students", "parents"} \subseteq status.files

\* ---- C16 ----
CompleteBy(s) ==
  status.exists /\ status.status = "complete" /\ status.fetched_by_session = s

\* C16: a 'complete' snapshot for which a page failure was absorbed has an
\* entry in fetch_stats.errors.
C16_AbsorbedFailureIsRecorded ==
  \A s \in Sessions : CompleteBy(s) /\ SomePageFailed(s) => status.errors # <<>>

\* ---- C17 ----
\* C17: total_api_calls of a completed snapshot is the number of page requests
\* issued for users, classes and schools in that build.
C17_TotalApiCallsCountsRequests ==
  \A s \in Sessions : CompleteBy(s) => status.total_api_calls = Len(his[s].calls)


\* ---- SnapshotManager.get_latest_snapshot, on its own ----

\* what get_snapshot finds for the source in a date directory: no such
\* directory, a directory without a readable status.json, or the status
DirStates == {"absent", "nostatus", "fetching", "complete", "failed"}

\* Path comparison of date_dirs.sort: the names compared character by character
NameLess(a, b) ==
  \E i \in 1..Len(a) : a[i] < b[i] /\ \A j \in 1..(i - 1) : a[j] = b[j]

\* date_dirs.sort(reverse=True), line 112
RECURSIVE SortReverse(_)
SortReverse(S) ==
  IF S = {} THEN <<>>
  ELSE LET m == CHOOSE x \in S : \A y \in S : ~NameLess(x, y)
       IN <<m>> \o SortReverse(S \ {m})

InitLatest ==
  /\ now = 0 /\ lock = NoLock /\ status = NoStatus /\ files = {}
  /\ pc = [s \in Sessions |-> "idle"]
  /\ loc = [s \in Sessions |-> NoLocals]
  /\ his = [s \in Sessions |-> NoHistory]
  /\ latest \in {[NoLatest EXCEPT !.dirs = ds] : ds \in [Days -> DirStates]}
  /\ writer = NoWriter
  /\ reader = NoReader
  /\ connector = NoConnector
  /\ signer = NoSigner

engine == <<now, lock, status, files, pc, loc, his>>

\* lines 104-112: the district directory is listed and the names sorted
get_latest_snapshot_list ==
  /\ latest.at = "idle"
  /\ LET dirs == {d \in Days : latest.dirs[d] # "absent"} IN
       latest' = IF dirs = {}
                   THEN [latest EXCEPT !.at = "returned", !.result = None]
                   ELSE [latest EXCEPT !.at = "scan", !.date_dirs = SortReverse(dirs)]
  /\ UNCHANGED <<engine, writer, reader, connector, signer>>

\* the loop of lines 114-126 without the test of the status at line 116
get_latest_snapshot_any_status ==
  /\ latest.at = "scan"
  /\ LET d == Head(latest.date_dirs)
         snapshot == latest.dirs[d]
     IN latest' =
          IF latest.date_dirs = <<>>
            THEN [latest EXCEPT !.at = "returned", !.result = None]
          ELSE IF snapshot # "nostatus"
            THEN [latest EXCEPT !.at = "returned",
                                !.result = [date |-> d, status |-> snapshot]]
          ELSE [latest EXCEPT !.date_dirs = Tail(@)]
  /\ UNCHANGED <<engine, writer, reader, connector, signer>>

\* lines 114-126: one iteration of the loop over date_dirs, and the return of
\* None after the last
get_latest_snapshot ==
  /\ latest.at = "scan"
  /\ LET d == Head(latest.date_dirs)
         snapshot == latest.dirs[d]
     IN latest' =
          IF latest.date_dirs = <<>>
            THEN [latest EXCEPT !.at = "returned", !.result = None]
          ELSE IF snapshot = "complete"
            THEN [latest EXCEPT !.at = "returned",
                                !.result = [date |-> d, status |-> snapshot]]
          ELSE [latest EXCEPT !.date_dirs = Tail(@)]
  /\ UNCHANGED <<engine, writer, reader, connector, signer>>

NextLatest == get_latest_snapshot_list \/ get_latest_snapshot

SpecLatest == InitLatest /\ [][NextLatest]_vars


\* the date a directory name stands for, as a number
DateValue(d) == d[1] * 10 + d[2]

CompleteDays == {d \in Days : latest.dirs[d] = "complete"}

\* C18: when get_latest_snapshot has returned, the result is the status of the
\* 'complete' snapshot with the greatest date, or None when no snapshot of the
\* district is 'complete'; a 'fetching' or 'failed' snapshot is never returned.
C18_LatestIsGreatestComplete ==
  latest.at = "returned" =>
    IF CompleteDays = {}
      THEN latest.result = None
      ELSE /\ latest.result # None
           /\ latest.result.status = "complete"
           /\ latest.result.date \in CompleteDays
           /\ \A d \in CompleteDays : DateValue(d) <= DateValue(latest.result.date)

\* the most recent snapshot is still 'fetching', an older one is 'complete' and
\* is the one returned
C18_Witness ==
  /\ latest.at = "returned"
  /\ latest.result # None
  /\ \E d \in Days : /\ DateValue(d) > DateValue(latest.result.date)
                     /\ latest.dirs[d] \in {"fetching", "failed"}
  /\ \E d \in Days : /\ DateValue(d) < DateValue(latest.result.date)
                     /\ latest.dirs[d] = "complete"


\* ---- SnapshotManager.cleanup_partial_snapshot, called twice in a row ----

CleanupCalls == <<1, 2>>

\* a lock and a 'failed' status of the session that cleans up
OwnLock == [PriorLock EXCEPT !.session_id = CleanupCalls[1], !.started_at = 0]
FailedStatus == [PriorStatus EXCEPT !.status = "failed", !.started_at = 0,
                                    !.fetched_by_session = CleanupCalls[1],
                                    !.errors = <<"fetch">>]

\* the directory holds any of the entity files, with or without status.json
\* and .lock; both calls are about to list it
InitCleanup ==
  /\ now = 0
  /\ lock \in {NoLock, OwnLock}
  /\ status \in {NoStatus, FailedStatus, EarlierStatus}
  /\ files \in SUBSET EntitySet
  /\ pc = [s \in Sessions |-> "cleanup_list"]
  /\ loc = [s \in Sessions |-> NoLocals]
  /\ his = [s \in Sessions |-> NoHistory]
  /\ latest = NoLatest
  /\ writer = NoWriter
  /\ reader = NoReader
  /\ connector = NoConnector
  /\ signer = NoSigner

\* the second call starts when the first has returned
Turn(s) ==
  \/ s = CleanupCalls[1]
  \/ s = CleanupCalls[2] /\ pc[CleanupCalls[1]] = "end"

NextCleanup ==
  \/ \E s \in Sessions : Turn(s) /\ cleanup_partial_list(s)
  \/ \E s \in Sessions : Turn(s) /\ cleanup_partial_snapshot(s)

SpecCleanup == InitCleanup /\ [][NextCleanup]_vars

Columns == <<"sourcedId", "email">>
ColumnSet == {Columns[i] : i \in DOMAIN Columns}

Ids == {"a", "b"}

\* the records of the upstream: the key, with or without the optional column,
\* with or without a field that is no column
Records ==
  {[sourcedId |-> i] : i \in Ids}
    \cup {[sourcedId |-> i, email |-> "e"] : i \in Ids}
    \cup {[sourcedId |-> i, email |-> "e", orgs |-> "o"] : i \in Ids}

RECURSIVE SeqsUpTo(_, _)
SeqsUpTo(S, n) ==
  IF n = 0 THEN {<<>>}
  ELSE LET shorter == SeqsUpTo(S, n - 1)
       IN shorter \cup {Append(q, x) : q \in {t \in shorter : Len(t) = n - 1}, x \in S}

\* csv_writer.writeheader(), line 72: the row of the column names
HeaderRow == [c \in ColumnSet |-> c]

\* csv_writer.writerow(record) with extrasaction='ignore', line 76: the
\* columns only, an absent one written as the empty string
CsvRow(record) == [c \in ColumnSet |-> IF c \in DOMAIN record THEN record[c] ELSE ""]

\* json.dumps(record) + '\n', line 79: one line that holds the whole record
JsonLine(record) == record

\* the file pair is absent, or holds what an earlier call wrote
InitWriter ==
  /\ now = 0 /\ lock = NoLock /\ status = NoStatus /\ files = {}
  /\ pc = [s \in Sessions |-> "idle"]
  /\ loc = [s \in Sessions |-> NoLocals]
  /\ his = [s \in Sessions |-> NoHistory]
  /\ latest = NoLatest
  /\ reader = NoReader
  /\ connector = NoConnector
  /\ signer = NoSigner
  /\ \E data \in SeqsUpTo(Records, MaxRecords), old \in SeqsUpTo(Records, 1) :
       writer = [NoWriter EXCEPT
                   !.data = data,
                   !.csv = IF old = <<>> THEN <<>> ELSE <<HeaderRow, CsvRow(old[1])>>,
                   !.jsonl = IF old = <<>> THEN <<>> ELSE <<JsonLine(old[1])>>]

\* the open of lines 68-69 in mode 'a' instead of 'w'
write_entity_data_open_append ==
  /\ writer.at = "idle"
  /\ writer' = [writer EXCEPT !.at = "rows", !.idx = 1, !.rows_written = 0,
                              !.csv = Append(@, HeaderRow)]
  /\ UNCHANGED <<engine, latest, reader, connector, signer>>

\* lines 65-72: both files are opened in mode 'w' and the header is written
write_entity_data_open ==
  /\ writer.at = "idle"
  /\ writer' = [writer EXCEPT !.at = "rows", !.idx = 1, !.rows_written = 0,
                              !.csv = <<HeaderRow>>, !.jsonl = <<>>]
  /\ UNCHANGED <<engine, latest, reader, connector, signer>>

\* lines 74-81: one iteration of the loop over data
write_entity_data_row ==
  /\ writer.at = "rows"
  /\ writer.idx <= Len(writer.data)
  /\ LET record == writer.data[writer.idx] IN
       writer' = [writer EXCEPT !.idx = @ + 1, !.rows_written = @ + 1,
                                !.csv = Append(@, CsvRow(record)),
                                !.jsonl = Append(@, JsonLine(record))]
  /\ UNCHANGED <<engine, latest, reader, connector, signer>>

\* lines 87-102: the loop is over, the metadata is built and returned
write_entity_data_return ==
  /\ writer.at = "rows"
  /\ writer.idx > Len(writer.data)
  /\ writer' = [writer EXCEPT !.at = "returned", !.metadata = [rows |-> writer.rows_written]]
  /\ UNCHANGED <<engine, latest, reader, connector, signer>>

NextWriter ==
  \/ write_entity_data_open
  \/ write_entity_data_row
  \/ write_entity_data_return

SpecWriter == InitWriter /\ [][NextWriter]_vars

\* what csv.DictReader yields from the CSV file: the rows after the header
DataRows == Tail(writer.csv)

\* C20: after write_entity_data returns, the CSV file has len(records) data
\* rows and the JSONL file len(records) lines, the i-th row and the i-th line
\* carry the sourcedId of records[i], and the 'rows' value of the returned
\* metadata is len(records).
C20_RowsAndLinesMatchRecords ==
  writer.at = "returned" =>
    /\ writer.csv # <<>> /\ Head(writer.csv) = HeaderRow
    /\ Len(DataRows) = Len(writer.data)
    /\ Len(writer.jsonl) = Len(writer.data)
    /\ writer.metadata.rows = Len(writer.data)
    /\ \A i \in 1..Len(writer.data) :
         /\ DataRows[i].sourcedId = writer.data[i].sourcedId
         /\ writer.jsonl[i].sourcedId = writer.data[i].sourcedId

\* a call has returned that wrote MaxRecords records, two of them with
\* different ids, one with a field that is no column, over an earlier file pair
C20_Witness ==
  /\ writer.at = "returned"
  /\ Len(writer.data) = MaxRecords
  /\ writer.data[1].sourcedId # writer.data[2].sourcedId
  /\ \E i \in 1..Len(writer.data) : DOMAIN writer.data[i] # DOMAIN DataRows[i]
  /\ writer.jsonl = writer.data


\* ---- SnapshotWriter.search_csv, row by row ----

\* strings are sequences of characters; str.lower() character by character
Lower(c) == IF c = "A" THEN "a" ELSE IF c = "B" THEN "b" ELSE c
LowerText(t) == [i \in 1..Len(t) |-> Lower(t[i])]

\* q in v, for strings
Contains(q, v) ==
  \E k \in 0..(Len(v) - Len(q)) : \A i \in 1..Len(q) : v[k + i] = q[i]

TextIds == {<<"a">>, <<"A">>, <<"a", "b">>, <<"b">>}
Queries == TextIds \cup {<<>>}

\* records as write_entity_data received them: the key, with or without the
\* optional column
ReadRecords ==
  {[sourcedId |-> i] : i \in TextIds}
    \cup {[sourcedId |-> i, email |-> <<"b">>] : i \in TextIds}

\* the row csv.DictReader yields for a record DictWriter wrote: every column
\* a string, the empty string for an absent one
ReadRow(record) == [c \in ColumnSet |-> IF c \in DOMAIN record THEN record[c] ELSE <<>>]

\* the entity types of COLUMNS (two of them), and a name that is none of them
KnownTypes == {"students", "schools"}
EntityTypes == KnownTypes \cup {"bogus"}

\* lines 124-132: the columns searched when search_columns is None
DefaultColumns(entity_type) == IF entity_type = "students" THEN ColumnSet ELSE {}

\* the file pair write_entity_data left for data; it writes none for a name
\* outside COLUMNS (lines 52-53)
FilePair(r, entity_type, data) ==
  [r EXCEPT !.entity_type = entity_type, !.exists = TRUE,
            !.csv = [i \in 1..Len(data) |-> ReadRow(data[i])],
            !.jsonl = data]

ReaderFiles ==
  {[NoReader EXCEPT !.entity_type = t] : t \in EntityTypes}
    \cup {FilePair(NoReader, t, data) : t \in KnownTypes, data \in SeqsUpTo(ReadRecords, MaxRows)}

InitSearch ==
  /\ now = 0 /\ lock = NoLock /\ status = NoStatus /\ files = {}
  /\ pc = [s \in Sessions |-> "idle"]
  /\ loc = [s \in Sessions |-> NoLocals]
  /\ his = [s \in Sessions |-> NoHistory]
  /\ latest = NoLatest /\ writer = NoWriter
  /\ connector = NoConnector /\ signer = NoSigner
  /\ \E r \in ReaderFiles, q \in Queries, limit \in 0..MaxLimit,
        cols \in {{}, {"sourcedId"}, {"email"}} :
       reader = [r EXCEPT !.op = "search_csv", !.search_query = q,
                          !.search_columns = cols, !.limit = limit]

\* line 147: the row matches when a searched column contains the query,
\* both in lower case
RowMatches(row, columns, query) ==
  \E col \in columns :
    Contains(LowerText(query), LowerText(IF col \in DOMAIN row THEN row[col] ELSE <<>>))

\* lines 118-136: no file, no results; search_columns None (here {}) stands
\* for the default columns of the entity type
search_csv_open ==
  /\ reader.at = "idle" /\ reader.op = "search_csv"
  /\ reader' =
       IF ~reader.exists
         THEN [reader EXCEPT !.at = "returned", !.results = <<>>]
         ELSE [reader EXCEPT !.at = "scan", !.pos = 1, !.results = <<>>,
                 !.search_columns = IF @ = {} THEN DefaultColumns(reader.entity_type) ELSE @]
  /\ UNCHANGED <<engine, latest, writer, connector, signer>>

\* lines 145-151: one iteration of the loop over the rows
search_csv_row ==
  /\ reader.at = "scan" /\ reader.op = "search_csv"
  /\ reader.pos <= Len(reader.csv)
  /\ LET row == reader.csv[reader.pos]
         r == [reader EXCEPT !.scanned = @ + 1, !.pos = @ + 1]
     IN reader' =
          IF RowMatches(row, reader.search_columns, reader.search_query)
            THEN IF Len(reader.results) + 1 >= reader.limit
                   THEN [r EXCEPT !.results = Append(@, row), !.at = "returned"]
                   ELSE [r EXCEPT !.results = Append(@, row)]
            ELSE r
  /\ UNCHANGED <<engine, latest, writer, connector, signer>>

\* line 164: the rows are exhausted
search_csv_return ==
  /\ reader.at = "scan" /\ reader.op = "search_csv"
  /\ reader.pos > Len(reader.csv)
  /\ reader' = [reader EXCEPT !.at = "returned"]
  /\ UNCHANGED <<engine, latest, writer, connector, signer>>

NextSearch == search_csv_open \/ search_csv_row \/ search_csv_return

SpecSearch == InitSearch /\ [][NextSearch]_vars

\* the rows of the file that match, in file order
MatchingRows ==
  LET Test(row) == RowMatches(row, reader.search_columns, reader.search_query)
  IN SelectSeq(reader.csv, Test)

\* C21: search_csv returns, in file order, only rows in which a searched
\* column contains the query case-insensitively, never more than limit of
\* them for any limit, and it reads no row after the one that completed them.
C21_SearchReturnsAtMostLimit ==
  reader.at = "returned" /\ reader.op = "search_csv" =>
    /\ Len(reader.results) <= reader.limit
    /\ Len(reader.results) <= Len(MatchingRows)
    /\ reader.results = SubSeq(MatchingRows, 1, Len(reader.results))
    /\ Len(reader.results) = reader.limit /\ reader.limit > 0 =>
         reader.csv[reader.scanned] = reader.results[Len(reader.results)]


\* C22: a SnapshotWriter operation called with an entity type outside the
\* known set fails with an error: it never returns a value, a call that
\* returns the empty list for want of a file is a call on a known type.
C22_UnknownTypeFailsFast ==
  reader.entity_type \notin KnownTypes => reader.at # "returned"


\* ---- C23 ----
WritePosition(e) == CHOOSE i \in 1..Len(Entities) : Entities[i] = e

\* a page request of session s in this step
Requests(s) == Len(his'[s].calls) > Len(his[s].calls)
\* a write_entity_data call of session s in this step
Writes(s) == pc[s] = "write" /\ <<pc[s], loc[s], files>> # <<pc'[s], loc'[s], files'>>
\* the complete_snapshot call of session s starts in this step
Completes(s) == "complete" \in his'[s].called \ his[s].called

\* C23: within one create_snapshot the page requests go to users, then
\* classes, then schools, all of them after initialize_snapshot returned True
\* and before the first write; the writes go to students, parents, classes,
\* schools in that order, skipping only the empty groups; complete_snapshot is
\* called when every non-empty group has been written.
C23_StepsInFixedOrder ==
  [][\A s \in Sessions :
       /\ Requests(s) =>
            /\ his[s].init_result = "true"
            /\ loc[s].files_metadata = {} /\ his[s].called = {}
            /\ \A i \in 1..Len(his[s].calls) :
                 Position(his[s].calls[i].entity)
                   <= Position(his'[s].calls[Len(his'[s].calls)].entity)
       /\ Writes(s) =>
            /\ his[s].init_result = "true"
            /\ loc[s].entity = "done" /\ his[s].called = {}
            /\ \A e \in loc'[s].files_metadata \ loc[s].files_metadata :
                 /\ e \in files'
                 /\ \A d \in loc[s].files_metadata : WritePosition(d) < WritePosition(e)
                 /\ \A d \in loc[s].groups :
                      WritePosition(d) < WritePosition(e) => d \in loc[s].files_metadata
       /\ Completes(s) =>
            /\ loc[s].entity = "done"
            /\ loc[s].groups \subseteq loc[s].files_metadata
            /\ loc[s].groups = Groups(loc[s].all_users, loc[s].classes, loc[s].schools)]_vars

\* a create_snapshot that fetched all three entity types and wrote all four
\* groups has completed
C23_Witness ==
  /\ CompleteBy(FetchSession)
  /\ status.files = EntitySet
  /\ \A e \in {"users", "classes", "schools"} : CallsOf(FetchSession, e) # <<>>


\* ---- ClassLinkConnector.get_district_credentials, call after call ----

InitCredentials ==
  /\ now = 0 /\ lock = NoLock /\ status = NoStatus /\ files = {}
  /\ pc = [s \in Sessions |-> "idle"]
  /\ loc = [s \in Sessions |-> NoLocals]
  /\ his = [s \in Sessions |-> NoHistory]
  /\ latest = NoLatest /\ writer = NoWriter /\ reader = NoReader
  /\ connector = NoConnector /\ signer = NoSigner

\* what the management API answers: 200 with credentials, another status, or
\* an exception out of requests.get / response.json
ServerAnswers == Credentials \cup {"non200", "raise"}

\* lines 235-239: the cache is looked up; a hit is returned, a miss goes on to
\* the request of line 248
get_district_credentials(app) ==
  /\ connector.at = "idle"
  /\ Len(connector.log) < MaxCalls
  /\ connector' =
       IF connector.cache[app] # "absent"
         THEN [connector EXCEPT !.log = Append(@, [app |-> app, requested |-> FALSE,
                                                   result |-> connector.cache[app]])]
         ELSE [connector EXCEPT !.at = "request", !.app = app]
  /\ UNCHANGED <<engine, latest, writer, reader, signer>>

\* a response handling that stores the result in the cache whatever it is
get_district_credentials_response_cache_all(answer) ==
  /\ connector.at = "request"
  /\ LET result == IF answer \in Credentials THEN answer ELSE "None" IN
       connector' = [connector EXCEPT
                       !.at = "idle",
                       !.cache[connector.app] = result,
                       !.log = Append(@, [app |-> connector.app, requested |-> TRUE,
                                          result |-> result])]
  /\ UNCHANGED <<engine, latest, writer, reader, signer>>

\* lines 248-283: the answer to the request; credentials of a 200 answer are
\* cached and returned, anything else returns None
get_district_credentials_response(answer) ==
  /\ connector.at = "request"
  /\ LET result == IF answer \in Credentials THEN answer ELSE "None" IN
       connector' = [connector EXCEPT
                       !.at = "idle",
                       !.cache[connector.app] = IF answer \in Credentials THEN answer ELSE @,
                       !.log = Append(@, [app |-> connector.app, requested |-> TRUE,
                                          result |-> result])]
  /\ UNCHANGED <<engine, latest, writer, reader, signer>>

NextCredentials ==
  \/ \E app \in AppIds : get_district_credentials(app)
  \/ \E answer \in ServerAnswers : get_district_credentials_response(answer)

SpecCredentials == InitCredentials /\ [][NextCredentials]_vars

\* the calls before call j for the same app id that returned credentials
Successes(j) ==
  {i \in 1..(j - 1) : /\ connector.log[i].app = connector.log[j].app
                      /\ connector.log[i].result # "None"}

\* C24: on one connector, a call that comes after a successful call for the
\* same app id issues no request and returns the credentials of that call; a
\* call all of whose predecessors for the app id failed issues the request.
C24_CredentialsCachedAfterSuccess ==
  \A j \in 1..Len(connector.log) :
    IF Successes(j) = {}
      THEN connector.log[j].requested
      ELSE /\ ~connector.log[j].requested
           /\ \A i \in Successes(j) : connector.log[j].result = connector.log[i].result

\* a failed call, a successful call that issued the request again, and a third
\* call for the app id answered from the cache, with a call for another app id
\* in between
C24_Witness ==
  \E i, j, k, m \in 1..Len(connector.log) :
    /\ i < j /\ j < m /\ m < k
    /\ connector.log[i].app = connector.log[j].app /\ connector.log[j].app = connector.log[k].app
    /\ connector.log[m].app # connector.log[i].app
    /\ connector.log[i].result = "None"
    /\ connector.log[j].requested /\ connector.log[j].result # "None"
    /\ ~connector.log[k].requested /\ connector.log[k].result = connector.log[j].result


\* ---- OneRosterClient._generate_oauth_signature ----

\* strings are sequences of characters: a letter, the separator of the
\* parameter string, and the escape character of quote()
ValueChars == {"a", "&", "%"}
Values == SeqsUpTo(ValueChars, MaxValueLen)

\* the parameter names, in the order sorted() puts them
ParamNames == <<"limit", "oauth_nonce">>
Rank(k) == CHOOSE i \in 1..Len(ParamNames) : ParamNames[i] = k

\* a dict with every name of ParamNames, as the list of its items in
\* insertion order: the order of ParamNames, or the other one
Dict(v1, v2, swapped) ==
  IF swapped
    THEN <<[k |-> ParamNames[2], v |-> v2], [k |-> ParamNames[1], v |-> v1]>>
    ELSE <<[k |-> ParamNames[1], v |-> v1], [k |-> ParamNames[2], v |-> v2]>>

ValueOf(params, k) == LET i == CHOOSE j \in 1..Len(params) : params[j].k = k IN params[i].v

\* the same items, whatever their order
SameDict(p, q) == \A n \in 1..Len(ParamNames) : ValueOf(p, ParamNames[n]) = ValueOf(q, ParamNames[n])

\* the dicts differ in the value of exactly one parameter
OneValueChanged(p, q) ==
  \E n \in 1..Len(ParamNames) :
    /\ ValueOf(p, ParamNames[n]) # ValueOf(q, ParamNames[n])
    /\ \A m \in 1..Len(ParamNames) : m # n => ValueOf(p, ParamNames[m]) = ValueOf(q, ParamNames[m])

\* sorted(params.items()), line 46
RECURSIVE SortItems(_)
SortItems(items) ==
  IF items = <<>> THEN <<>>
  ELSE LET i == CHOOSE j \in 1..Len(items) :
                  \A n \in 1..Len(items) : Rank(items[j].k) <= Rank(items[n].k)
       IN <<items[i]>> \o SortItems(SubSeq(items, 1, i - 1) \o SubSeq(items, i + 1, Len(items)))

\* quote(c, safe=""): letters, digits and _.-~ stay, anything else becomes
\* its percent escape
QuoteChar(c) ==
  IF c = "&" THEN <<"%", "2", "6">>
  ELSE IF c = "%" THEN <<"%", "2", "5">>
  ELSE IF c = "=" THEN <<"%", "3", "D">>
  ELSE IF c = ":" THEN <<"%", "3", "A">>
  ELSE IF c = "/" THEN <<"%", "2", "F">>
  ELSE <<c>>

RECURSIVE Quote(_)
Quote(t) == IF t = <<>> THEN <<>> ELSE QuoteChar(Head(t)) \o Quote(Tail(t))

\* lines 49-50: the items as name=value, both quoted, joined with '&'
RECURSIVE ParamString(_)
ParamString(items) ==
  IF items = <<>> THEN <<>>
  ELSE Quote(<<Head(items).k>>) \o <<"=">> \o Quote(Head(items).v)
         \o (IF Len(items) > 1 THEN <<"&">> ELSE <<>>) \o ParamString(Tail(items))

\* method.upper(), line 55
Upper(method) == IF method = "get" THEN "GET" ELSE method

\* lines 53-55: scheme://netloc/path of the URL, without its query
BaseUrl(url) == <<"https", ":", "/", "/", url.base>>

\* the signature base string built from items in the order given
SignatureBaseOf(method, url, items) ==
  <<Upper(method)>> \o <<"&">> \o Quote(BaseUrl(url)) \o <<"&">> \o Quote(ParamString(items))

\* lines 57-67: HMAC-SHA256 of the base string under the key
\* quote(client_secret)&, taken as the pair of key and message
Hmac(key, message) == <<key, message>>

InitSigner ==
  /\ now = 0 /\ lock = NoLock /\ status = NoStatus /\ files = {}
  /\ pc = [s \in Sessions |-> "idle"]
  /\ loc = [s \in Sessions |-> NoLocals]
  /\ his = [s \in Sessions |-> NoHistory]
  /\ latest = NoLatest /\ writer = NoWriter /\ reader = NoReader
  /\ connector = NoConnector
  /\ \E v1, v2, w \in Values, n \in 1..Len(ParamNames), swapped \in BOOLEAN,
        method \in {"GET", "get"}, secret \in {<<"a">>, <<"&">>} :
       LET p == Dict(v1, v2, FALSE)
           q == IF n = 1 THEN Dict(w, v2, swapped) ELSE Dict(v1, w, swapped)
       IN signer = [NoSigner EXCEPT
                      !.client_secret = secret,
                      !.calls[1].params = p,
                      !.calls[2].method = method, !.calls[2].params = q,
                      !.calls[2].url.query = IF swapped THEN "limit=1" ELSE ""]

\* a signature over the items as the dict yields them, without line 46
generate_oauth_signature_unsorted(n) ==
  /\ signer.calls[n].signature = <<>>
  /\ n > 1 => signer.calls[n - 1].signature # <<>>
  /\ LET c == signer.calls[n]
         signature_base == SignatureBaseOf(c.method, c.url, c.params)
         signing_key == Quote(signer.client_secret) \o <<"&">>
     IN signer' = [signer EXCEPT !.at = "signed",
                                 !.calls[n].signature_base = signature_base,
                                 !.calls[n].signature = Hmac(signing_key, signature_base)]
  /\ UNCHANGED <<engine, latest, writer, reader, connector>>

\* OneRosterClient._generate_oauth_signature, lines 45-67, for the n-th call
generate_oauth_signature(n) ==
  /\ signer.calls[n].signature = <<>>
  /\ n > 1 => signer.calls[n - 1].signature # <<>>
  /\ LET c == signer.calls[n]
         signature_base == SignatureBaseOf(c.method, c.url, SortItems(c.params))
         signing_key == Quote(signer.client_secret) \o <<"&">>
     IN signer' = [signer EXCEPT !.at = "signed",
                                 !.calls[n].signature_base = signature_base,
                                 !.calls[n].signature = Hmac(signing_key, signature_base)]
  /\ UNCHANGED <<engine, latest, writer, reader, connector>>

NextSigner == \E n \in {1, 2} : generate_oauth_signature(n)

SpecSigner == InitSigner /\ [][NextSigner]_vars

BothSigned == \A n \in {1, 2} : signer.calls[n].signature # <<>>

\* C25: two calls with the same method, URL, secret and parameter set return
\* the same signature in whatever order the parameters were supplied; two
\* calls whose parameter sets differ in the value of one parameter sign
\* different base strings.
C25_SignatureDependsOnValuesOnly ==
  BothSigned =>
    LET c == signer.calls[1]
        d == signer.calls[2]
    IN /\ SameDict(c.params, d.params) /\ Upper(c.method) = Upper(d.method)
            => c.signature = d.signature
       /\ OneValueChanged(c.params, d.params)
            => c.signature_base # d.signature_base /\ c.signature # d.signature

\* the same parameters supplied in two orders were signed, with a value that
\* quote() escapes; the second URL carries a query, which is not signed
C25_Witness ==
  /\ BothSigned
  /\ SameDict(signer.calls[1].params, signer.calls[2].params)
  /\ signer.calls[1].params # signer.calls[2].params
  /\ ValueOf(signer.calls[1].params, ParamNames[1]) = <<"&", "%">>
  /\ signer.calls[1].signature = signer.calls[2].signature


\* ---- a fetch that stopped, and the next fetch of the key ----

\* the lock of a fetch that stopped between open(lock_path, 'x') and json.dump
\* (snapshot_manager.py:222-227): the file exists and is empty
UnwrittenLock == [PriorLock EXCEPT !.written = FALSE, !.started_at = 0]

\* a fetch stopped PriorAge minutes ago, more than StaleMinutes: while it wrote
\* the lock, before it wrote the status, or later with or without entity
\* files written
InitStuck ==
  /\ now = 0
  /\ \/ lock = UnwrittenLock /\ status = NoStatus /\ files = {}
     \/ lock = PriorLock /\ status = NoStatus /\ files = {}
     \/ lock = PriorLock /\ status = PriorStatus /\ files \in {{}, {Entities[1]}}
  /\ pc = [s \in Sessions |-> "idle"]
  /\ loc = [s \in Sessions |-> NoLocals]
  /\ his = [s \in Sessions |-> NoHistory]
  /\ latest = NoLatest /\ writer = NoWriter /\ reader = NoReader
  /\ connector = NoConnector /\ signer = NoSigner

SpecStuck == InitStuck /\ [][NextFetch]_vars

\* C26: more than 30 minutes after a fetch stopped, at whatever point after
\* its initialize_snapshot began, a new initialize_snapshot for the key does
\* not return False.
C26_StuckKeyIsReclaimed ==
  his[FetchSession].init_result # "false"


\* ---- C27 ----
\* session s takes a step of the call at position p
Steps(s, p) == pc[s] = p /\ <<pc'[s], loc'[s], his'[s]>> # <<pc[s], loc[s], his[s]>>

\* C27: the lock file is removed only by release_lock of the session whose
\* session_id it holds, or by is_snapshot_in_progress on a started_at it read
\* as stale; and complete_snapshot / fail_snapshot of a session only rewrite a status
\* document whose fetched_by_session is that session.
C27_OnlyOwnerReleasesAndRewrites ==
  [][/\ lock.exists /\ ~lock'.exists =>
          \E s \in Sessions :
            \/ Steps(s, "rel_unlink") /\ lock.session_id = s
            \/ Steps(s, "ip_age") /\ IsStale(loc[s].lock_data, now)
     /\ \A s \in Sessions :
          (Steps(s, "comp_write") \/ Steps(s, "fail_write")) /\ status' # status
            => status.fetched_by_session = s]_vars


\* ---- C28 ----
\* the entity files session t wrote in the create_snapshot it is in, or listed
\* in the status document it completed
WrittenBy(t) == loc[t].files_metadata \cup (IF CompleteBy(t) THEN status.files ELSE {})

\* C28: the cleanup_partial_snapshot that follows a failed fetch unlinks no
\* entity file that another session wrote.
C28_CleanupSparesOtherSessions ==
  [][\A s \in Sessions :
       Steps(s, "cleanup_unlink") =>
         \A t \in Sessions \ {s} : (files \ files') \cap WrittenBy(t) = {}]_vars


\* ---- C29 ----
\* the records create_snapshot hands to write_entity_data for group e (lines
\* 232-234, 259-277); by C20 their number is the 'rows' of the file's metadata
GroupRecords(l, e) ==
  IF e = "students" THEN WithRole(l.all_users, {"student"})
  ELSE IF e = "parents" THEN WithRole(l.all_users, {"parent"})
  ELSE IF e = "classes" THEN l.classes
  ELSE l.schools

RECURSIVE SumRows(_, _)
SumRows(l, es) ==
  IF es = {} THEN 0
  ELSE LET e == CHOOSE x \in es : TRUE
       IN Len(GroupRecords(l, e)) + SumRows(l, es \ {e})

\* C29: the status document complete_snapshot writes carries a
\* fetch_stats.total_records equal to the sum of the rows of the files it
\* lists, whatever roles the fetched users have.
C29_TotalRecordsIsSumOfRows ==
  [][\A s \in Sessions :
       Steps(s, "comp_write") /\ status'.status = "complete" /\ status' # status =>
         status'.total_records = SumRows(loc[s], status'.files)]_vars


\* ---- SnapshotWriter.get_record_by_sourced_id and get_full_payload ----

InitLookup ==
  /\ now = 0 /\ lock = NoLock /\ status = NoStatus /\ files = {}
  /\ pc = [s \in Sessions |-> "idle"]
  /\ loc = [s \in Sessions |-> NoLocals]
  /\ his = [s \in Sessions |-> NoHistory]
  /\ latest = NoLatest /\ writer = NoWriter
  /\ connector = NoConnector /\ signer = NoSigner
  /\ \E r \in ReaderFiles, id \in TextIds :
       reader = [r EXCEPT !.op = "get_record_by_sourced_id", !.sourced_id = id]

\* line 178: the call of search_csv on the sourcedId column with limit 1
get_record_by_sourced_id ==
  /\ reader.at = "idle" /\ reader.op = "get_record_by_sourced_id"
  /\ reader' = [reader EXCEPT !.op = "search_csv", !.search_query = reader.sourced_id,
                              !.search_columns = {"sourcedId"}, !.limit = 1]
  /\ UNCHANGED <<engine, latest, writer, connector, signer>>

\* line 179: results[0] if results else None
get_record_by_sourced_id_return ==
  /\ reader.at = "returned" /\ reader.sourced_id # <<>>
  /\ reader' = [reader EXCEPT !.at = "payload", !.op = "get_full_payload",
                  !.record = IF reader.results = <<>> THEN <<>> ELSE <<reader.results[1]>>]
  /\ UNCHANGED <<engine, latest, writer, connector, signer>>

\* lines 192-196: no file, None
get_full_payload_open ==
  /\ reader.at = "payload"
  /\ reader' = IF reader.exists
                 THEN [reader EXCEPT !.at = "lines", !.pos = 1]
                 ELSE [reader EXCEPT !.at = "done", !.payload = <<>>]
  /\ UNCHANGED <<engine, latest, writer, connector, signer>>

\* lines 200-206: one iteration of the loop over the lines; the line whose
\* sourcedId equals the id is returned
get_full_payload_line ==
  /\ reader.at = "lines"
  /\ reader.pos <= Len(reader.jsonl)
  /\ LET record == reader.jsonl[reader.pos] IN
       reader' = IF record.sourcedId = reader.sourced_id
                   THEN [reader EXCEPT !.at = "done", !.payload = <<record>>]
                   ELSE [reader EXCEPT !.pos = @ + 1]
  /\ UNCHANGED <<engine, latest, writer, connector, signer>>

\* lines 208-211: no line has the id, None
get_full_payload_return ==
  /\ reader.at = "lines"
  /\ reader.pos > Len(reader.jsonl)
  /\ reader' = [reader EXCEPT !.at = "done", !.payload = <<>>]
  /\ UNCHANGED <<engine, latest, writer, connector, signer>>

NextLookup ==
  \/ get_record_by_sourced_id
  \/ search_csv_open
  \/ search_csv_row
  \/ search_csv_return
  \/ get_record_by_sourced_id_return
  \/ get_full_payload_open
  \/ get_full_payload_line
  \/ get_full_payload_return

SpecLookup == InitLookup /\ [][NextLookup]_vars

\* the flat rows whose sourcedId is exactly the id
ExactRows == SelectSeq(reader.csv, LAMBDA row : row.sourcedId = reader.sourced_id)

\* C30: get_record_by_sourced_id returns the first flat row whose sourcedId
\* equals the id, None when no row has it, and get_full_payload returns the
\* full record of that same row, None exactly when the other returns None.
C30_FlatRowAndPayloadAgree ==
  reader.at = "done" =>
    /\ reader.record = IF ExactRows = <<>> THEN <<>> ELSE <<Head(ExactRows)>>
    /\ (reader.record = <<>>) = (reader.payload = <<>>)
    /\ reader.record # <<>> /\ reader.payload # <<>> =>
         reader.record[1] = ReadRow(reader.payload[1])

====
